---- MODULE Spec2Model ----
(***************************************************************************)
(* Model of src/src/App.tsx: the Excel -> JSON converter.                  *)
(*                                                                         *)
(* Three specifications share this module:                                 *)
(*   SpecRow  - normalizeHeaders and isRowEmpty applied to one row         *)
(*   SpecConv - the body of the convertResult memo applied to one grid and *)
(*              one set of options                                         *)
(*   Spec     - the App component: its React state, the loads in flight    *)
(*              and the sheet-default effect                               *)
(* A variable that a specification does not use stays at its idle value.   *)
(***************************************************************************)
EXTENDS Integers, Sequences, FiniteSets, TLC

VARIABLES
    \* SpecRow
    values,         \* the argument row (unknown[])
    headers,        \* what normalizeHeaders(values) returned
    rowEmpty,       \* what isRowEmpty(values) returned
    \* SpecConv
    rows,           \* the grid sheet_to_json returned
    convOptions,    \* the ConvertOptions the memo read
    result,         \* what the memo body returned
    \* Spec (App)
    file,           \* useState<File | null>
    workbook,       \* useState<XLSX.WorkBook | null>
    error,          \* useState<string | null>
    isLoading,      \* useState(false)
    options,        \* useState<ConvertOptions>
    inflight,       \* loadFile calls suspended at `await nextFile.arrayBuffer()`
    effectPending   \* the [workbook] effect is scheduled and has not run yet

rowVars == <<values, headers, rowEmpty>>
convVars == <<rows, convOptions, result>>
appVars == <<file, workbook, error, isLoading, options, inflight, effectPending>>
vars == <<values, headers, rowEmpty, rows, convOptions, result,
          file, workbook, error, isLoading, options, inflight, effectPending>>

(***************************************************************************)
(* Values.  A JavaScript string is a sequence of one-character strings, so *)
(* that trimming and concatenation are computed and not assumed.           *)
(***************************************************************************)
NULL == [t |-> "null"]
Str(s) == [t |-> "str", v |-> s]
Num(n) == [t |-> "num", v |-> n]
Bool(b) == [t |-> "bool", v |-> b]

NotCalled == [t |-> "notcalled"]
Returned(x) == [t |-> "returned", value |-> x]

Min(a, b) == IF a < b THEN a ELSE b
Max(a, b) == IF a > b THEN a ELSE b

IsSpace(c) == c \in {" ", "\t", "\n"}

RECURSIVE TrimStart(_)
TrimStart(s) ==
    IF s # <<>> /\ IsSpace(Head(s)) THEN TrimStart(Tail(s)) ELSE s

RECURSIVE TrimEnd(_)
TrimEnd(s) ==
    IF s # <<>> /\ IsSpace(s[Len(s)]) THEN TrimEnd(SubSeq(s, 1, Len(s) - 1)) ELSE s

\* String.prototype.trim
Trim(s) == TrimEnd(TrimStart(s))

DigitChar(d) == <<"0", "1", "2", "3", "4", "5", "6", "7", "8", "9">>[d + 1]

RECURSIVE Digits(_)
Digits(n) ==
    IF n < 10 THEN <<DigitChar(n)>> ELSE Digits(n \div 10) \o <<DigitChar(n % 10)>>

\* String(n) and `${n}` for an integer n
NumberToString(n) == IF n < 0 THEN <<"-">> \o Digits(0 - n) ELSE Digits(n)

\* String(v ?? '')
StringOf(v) ==
    CASE v.t = "null" -> <<>>
      [] v.t = "str" -> v.v
      [] v.t = "num" -> NumberToString(v.v)
      [] v.t = "bool" -> IF v.v THEN <<"t", "r", "u", "e">> ELSE <<"f", "a", "l", "s", "e">>

(***************************************************************************)
(* normalizeHeaders                                                        *)
(***************************************************************************)
\* the callback of values.map (lines 16-19), i 0-based
BaseKey(v, i) ==
    LET text == Trim(StringOf(v))
    IN  IF Len(text) > 0 THEN text ELSE <<"C", "o", "l", "u", "m", "n">> \o NumberToString(i + 1)

BaseKeys(vals) == [p \in 1..Len(vals) |-> BaseKey(vals[p], p - 1)]

\* used.get(key) ?? 0
UsedGet(used, key) == IF key \in DOMAIN used THEN used[key] ELSE 0

\* used.set(key, n)
UsedSet(used, key, n) ==
    [k \in DOMAIN used \cup {key} |-> IF k = key THEN n ELSE used[k]]

\* lines 25-26 with `${key}_${count}`
EmittedKeyOffByOne(key, count) ==
    IF count = 0 THEN key ELSE key \o <<"_">> \o NumberToString(count)

\* lines 25-26: what the callback of base.map returns for a key seen `count`
\* times before
EmittedKey(key, count) ==
    IF count = 0 THEN key ELSE key \o <<"_">> \o NumberToString(count + 1)

\* base.map((key) => ...) from position p (1-based) on, with the Map `used`
RECURSIVE DedupeFrom(_, _, _)
DedupeFrom(base, p, used) ==
    IF p > Len(base) THEN <<>>
    ELSE LET key == base[p]
             count == UsedGet(used, key)
         IN  <<EmittedKey(key, count)>> \o DedupeFrom(base, p + 1, UsedSet(used, key, count + 1))

normalizeHeaders(vals) == DedupeFrom(BaseKeys(vals), 1, <<>>)

(***************************************************************************)
(* isRowEmpty                                                              *)
(***************************************************************************)
\* the callback of row.every with `!cell` in place of `cell == null`
CellIsEmptyFalsy(cell) ==
    CASE cell.t = "null" -> TRUE
      [] cell.t = "str" -> Len(Trim(cell.v)) = 0
      [] cell.t = "num" -> cell.v = 0
      [] cell.t = "bool" -> ~cell.v

\* the callback of row.every (lines 31-35)
CellIsEmpty(cell) ==
    IF cell.t = "null" THEN TRUE
    ELSE IF cell.t = "str" THEN Len(Trim(cell.v)) = 0
    ELSE FALSE

isRowEmpty(row) == \A p \in 1..Len(row) : CellIsEmpty(row[p])

(***************************************************************************)
(* clampNumber                                                             *)
(***************************************************************************)
\* line 39 without Math.max(min, value)
clampNumberNoLower(value, min, max) == Min(max, value)

\* lines 38-40

clampNumber(value, min, max) == Min(max, Max(min, value))

(***************************************************************************)
(* The body of the convertResult memo (lines 94-136), for the grid `rws`   *)
(* that sheet_to_json returned and the options `opts`                      *)
(***************************************************************************)
PreviewLimit == 25
PreviewDataLimit == 24

\* Array.prototype.slice(from, to), both 0-based, `to` exclusive
Slice(s, from, to) ==
    LET start == IF from < 0 THEN Max(Len(s) + from, 0) ELSE Min(from, Len(s))
        stop == IF to < 0 THEN Max(Len(s) + to, 0) ELSE Min(to, Len(s))
    IN  IF start >= stop THEN <<>> ELSE SubSeq(s, start + 1, stop)

\* rows[i] ?? dflt, i 0-based: a grid holds no null row, and an index outside
\* the array reads undefined
RowAtOr(s, i, dflt) == IF i \in 0..(Len(s) - 1) THEN s[i + 1] ELSE dflt

\* r[i] ?? dflt, i 0-based: a null cell and a missing cell both give dflt
CellAtOr(r, i, dflt) ==
    IF i \in 0..(Len(r) - 1) THEN (IF r[i + 1].t = "null" THEN dflt ELSE r[i + 1]) ELSE dflt

\* line 100
HeaderRowIndex(rws, opts) ==
    clampNumber(opts.headerRowNumber - 1, 0, Max(0, Len(rws) - 1))

\* the filter callbacks of lines 106 and 114
Keeps(opts, r) == IF opts.skipEmptyRows THEN ~isRowEmpty(r) ELSE TRUE

\* line 106
ExportRows(rws, opts) ==
    IF opts.skipEmptyRows THEN SelectSeq(rws, LAMBDA r : ~isRowEmpty(r)) ELSE rws

\* line 111
HeaderRow(rws, opts) == RowAtOr(rws, HeaderRowIndex(rws, opts), <<>>)

\* line 114 with slice(headerRowIndex): the header row counted as data
DataRowsFromHeader(rws, opts) ==
    SelectSeq(Slice(rws, HeaderRowIndex(rws, opts), Len(rws)), LAMBDA r : Keeps(opts, r))

\* line 114
DataRows(rws, opts) ==
    SelectSeq(Slice(rws, HeaderRowIndex(rws, opts) + 1, Len(rws)), LAMBDA r : Keeps(opts, r))

\* obj[key] = val
ObjSet(obj, key, val) ==
    [k \in DOMAIN obj \cup {key} |-> IF k = key THEN val ELSE obj[k]]

\* the for loop of lines 118-120 from i (0-based) on
RECURSIVE FillObject(_, _, _, _)
FillObject(hdrs, r, i, obj) ==
    IF i < Len(hdrs)
    THEN FillObject(hdrs, r, i + 1, ObjSet(obj, hdrs[i + 1], CellAtOr(r, i, Str(<<>>))))
    ELSE obj

\* the callback of dataRows.map (lines 116-122)
RowObject(hdrs, r) == FillObject(hdrs, r, 0, <<>>)

\* lines 115-122
Objects(rws, opts) ==
    LET hdrs == normalizeHeaders(HeaderRow(rws, opts))
        dataRows == DataRows(rws, opts)
    IN  [k \in 1..Len(dataRows) |-> RowObject(hdrs, dataRows[k])]

\* line 125 with slice(0, 25)
PreviewObjectsUncapped(rws, opts) ==
    <<HeaderRow(rws, opts)>> \o Slice(DataRows(rws, opts), 0, PreviewLimit)

\* line 125
PreviewObjects(rws, opts) ==
    <<HeaderRow(rws, opts)>> \o Slice(DataRows(rws, opts), 0, PreviewDataLimit)

\* line 108
PreviewArrays(rws, opts) == Slice(ExportRows(rws, opts), 0, PreviewLimit)

\* line 129: the text is kept as what JSON.stringify was given
Stringify(data, indent) == [value |-> data, indent |-> indent]

\* lines 100-136
ConvertRows(rws, opts) ==
    LET data == IF opts.outputMode = "arrays" THEN ExportRows(rws, opts) ELSE Objects(rws, opts)
    IN  [json |-> Stringify(data, IF opts.pretty THEN 2 ELSE 0),
         previewRows |-> IF opts.outputMode = "arrays"
                         THEN PreviewArrays(rws, opts) ELSE PreviewObjects(rws, opts),
         rowCount |-> Len(data),
         headerRowIndex |-> HeaderRowIndex(rws, opts)]

(***************************************************************************)
(* SpecRow: one row, to which normalizeHeaders and isRowEmpty are applied  *)
(***************************************************************************)
MaxRowLen == 3

RowCells ==
    { NULL, Num(0), Num(12), Bool(FALSE), Bool(TRUE),
      Str(<<>>), Str(<<" ", " ">>), Str(<<"X">>), Str(<<" ", "X", " ">>),
      Str(<<"X", "_", "2">>), Str(<<"X", "_", "3">>),
      Str(<<"C", "o", "l", "u", "m", "n", "2">>) }

RECURSIVE SeqsUpTo(_, _)
SeqsUpTo(S, n) ==
    IF n = 0 THEN {<<>>}
    ELSE LET shorter == SeqsUpTo(S, n - 1)
         IN  shorter \cup {Append(s, x) : s \in {q \in shorter : Len(q) = n - 1}, x \in S}

IdleRow == <<>>
IdleConvOptions == [outputMode |-> "objects", headerRowNumber |-> 1, skipEmptyRows |-> TRUE, pretty |-> TRUE]

RowIdle == values = IdleRow /\ headers = NotCalled /\ rowEmpty = NotCalled
ConvIdle == rows = <<>> /\ convOptions = IdleConvOptions /\ result = NotCalled
AppIdle ==
    /\ file = NULL
    /\ workbook = NULL
    /\ error = NULL
    /\ isLoading = FALSE
    /\ options = [sheetName |-> "", outputMode |-> "objects", headerRowNumber |-> 1,
                  skipEmptyRows |-> TRUE, pretty |-> TRUE]
    /\ inflight = <<>>
    /\ effectPending = FALSE

RowInit ==
    /\ values \in SeqsUpTo(RowCells, MaxRowLen)
    /\ headers = NotCalled
    /\ rowEmpty = NotCalled
    /\ ConvIdle
    /\ AppIdle

CallNormalizeHeaders ==
    /\ headers = NotCalled
    /\ headers' = Returned(normalizeHeaders(values))
    /\ UNCHANGED <<values, rowEmpty>>
    /\ UNCHANGED convVars
    /\ UNCHANGED appVars

CallIsRowEmpty ==
    /\ rowEmpty = NotCalled
    /\ rowEmpty' = Returned(isRowEmpty(values))
    /\ UNCHANGED <<values, headers>>
    /\ UNCHANGED convVars
    /\ UNCHANGED appVars

RowNext == CallNormalizeHeaders \/ CallIsRowEmpty

SpecRow == RowInit /\ [][RowNext]_vars

(***************************************************************************)
(* SpecConv: one grid and one set of options, to which the memo body is    *)
(* applied.  Short grids are built from GridRows; long grids have one      *)
(* numbered cell per row, every gap-th row blank, and are long enough for  *)
(* the preview to be cut.                                                  *)
(***************************************************************************)
MaxRows == 3
MaxExtraRows == 2
MaxGap == 2

GridRows ==
    { <<>>,
      <<Str(<<>>), Str(<<" ">>)>>,
      <<Str(<<"X">>), Str(<<"X", "_", "2">>), Str(<<"X">>)>>,
      <<Str(<<"a">>), Str(<<"b">>), Str(<<"c">>)>>,
      <<Str(<<"a">>)>>,
      <<Num(0), NULL, Str(<<"b">>), Str(<<"d">>)>> }

LongGrid(n, gap) ==
    [k \in 1..n |-> IF gap > 0 /\ k % gap = 0 THEN <<Str(<<>>)>> ELSE <<Num(k)>>]

LongGrids ==
    {LongGrid(n, gap) : n \in (PreviewLimit - 1)..(PreviewLimit + MaxExtraRows), gap \in 0..MaxGap}

HeaderRowNumbers == ((0 - 1)..(MaxRows + 2)) \cup {PreviewLimit + 1, 99}

ConvOptionSet ==
    [outputMode : {"objects", "arrays"}, headerRowNumber : HeaderRowNumbers,
     skipEmptyRows : BOOLEAN, pretty : BOOLEAN]

ConvInit ==
    /\ rows \in SeqsUpTo(GridRows, MaxRows) \cup LongGrids
    /\ convOptions \in ConvOptionSet
    /\ result = NotCalled
    /\ RowIdle
    /\ AppIdle

Convert ==
    /\ result = NotCalled
    /\ result' = Returned(ConvertRows(rows, convOptions))
    /\ UNCHANGED <<rows, convOptions>>
    /\ UNCHANGED rowVars
    /\ UNCHANGED appVars

ConvNext == Convert

SpecConv == ConvInit /\ [][ConvNext]_vars


(***************************************************************************)
(* Spec: the App component.  A state is a committed render: the values of  *)
(* the useState hooks, the loadFile calls suspended at their await, and    *)
(* whether the [workbook] effect of the last commit is still to run.       *)
(* The state updates of one synchronous stretch of code are one commit,    *)
(* and React runs a pending effect before it handles the next event.       *)
(***************************************************************************)
MaxInflight == 2

\* File objects the user can pick; the name is `stem.ext`, ext in lower case
FileA == [stem |-> "a", ext |-> "xlsx"]
FileB == [stem |-> "b", ext |-> "csv"]
FileNoSheets == [stem |-> "none", ext |-> "xlsx"]
FileCorrupt == [stem |-> "bad", ext |-> "xls"]
Files == {FileA, FileB, FileNoSheets, FileCorrupt}

GridPeople ==
    << <<Str(<<"N">>), Str(<<"A">>)>>,
       <<Str(<<"a">>), Num(30)>>,
       <<Str(<<>>), Str(<<>>)>> >>
GridDup == << <<Str(<<"X">>), Str(<<"X">>)>>, <<Num(1), Num(2)>> >>
GridBlank == << >>

\* XLSX.read(await nextFile.arrayBuffer()) (lines 72-73): the workbook a file
\* decodes to, or the error thrown.  `source` names the file the object was
\* decoded from; a sheet is kept as the grid sheet_to_json reads from it.
Decode(f) ==
    CASE f = FileA ->
            [t |-> "workbook", source |-> f, SheetNames |-> <<"S1", "S2">>,
             Sheets |-> [n \in {"S1", "S2"} |-> IF n = "S1" THEN GridPeople ELSE GridDup]]
      [] f = FileB ->
            [t |-> "workbook", source |-> f, SheetNames |-> <<"S3", "S2">>,
             Sheets |-> [n \in {"S3", "S2"} |-> IF n = "S3" THEN GridBlank ELSE GridPeople]]
      [] f = FileNoSheets ->
            [t |-> "workbook", source |-> f, SheetNames |-> <<>>, Sheets |-> <<>>]
      [] f = FileCorrupt ->
            [t |-> "throws", message |-> "Unsupported file"]

ErrorText(s) == [t |-> "str", v |-> s]

\* workbook.SheetNames.includes(name)
Includes(names, name) == \E p \in 1..Len(names) : names[p] = name

\* line 56
sheetNames == IF workbook = NULL THEN <<>> ELSE workbook.SheetNames

\* lines 89-137: the convertResult memo of the current render
convertResult ==
    IF workbook = NULL \/ options.sheetName = "" THEN NULL
    ELSE IF options.sheetName \notin DOMAIN workbook.Sheets THEN NULL
    ELSE ConvertRows(workbook.Sheets[options.sheetName], options)

\* line 139
canDownload == convertResult # NULL /\ file # NULL

\* lines 143-144
DownloadName ==
    IF file = NULL THEN "data.json"
    ELSE IF file.ext \in {"xlsx", "xls", "csv"} THEN file.stem \o ".json"
    ELSE file.stem \o "." \o file.ext \o ".json"

\* lines 141-154: what a click on the download button saves
downloadJson == [download |-> DownloadName, blob |-> convertResult.json]

Init ==
    /\ file = NULL
    /\ workbook = NULL
    /\ error = NULL
    /\ isLoading = FALSE
    /\ options = [sheetName |-> "", outputMode |-> "objects", headerRowNumber |-> 1,
                  skipEmptyRows |-> TRUE, pretty |-> TRUE]
    /\ inflight = <<>>
    /\ effectPending = TRUE
    /\ RowIdle
    /\ ConvIdle

\* onPickFile -> loadFile up to its await (lines 161-164, 66-72)
onPickFile(next) ==
    /\ ~effectPending
    /\ next # NULL
    /\ Len(inflight) < MaxInflight
    /\ isLoading' = TRUE
    /\ error' = NULL
    /\ file' = next
    /\ inflight' = Append(inflight, next)
    /\ UNCHANGED <<workbook, options, effectPending>>
    /\ UNCHANGED rowVars
    /\ UNCHANGED convVars

RemoveAt(s, k) == SubSeq(s, 1, k - 1) \o SubSeq(s, k + 1, Len(s))

\* lines 80-85 without setWorkbook(null): the old workbook stays
LoadThrowsKeepsWorkbook(k) ==
    /\ ~effectPending
    /\ k \in 1..Len(inflight)
    /\ Decode(inflight[k]).t = "throws"
    /\ error' = ErrorText("Dosya okunamadi: " \o Decode(inflight[k]).message)
    /\ isLoading' = FALSE
    /\ inflight' = RemoveAt(inflight, k)
    /\ UNCHANGED <<file, workbook, options, effectPending>>
    /\ UNCHANGED rowVars
    /\ UNCHANGED convVars

\* the k-th suspended loadFile resumes and the decode throws (lines 80-85)
LoadThrows(k) ==
    /\ ~effectPending
    /\ k \in 1..Len(inflight)
    /\ Decode(inflight[k]).t = "throws"
    /\ workbook' = NULL
    /\ error' = ErrorText("Dosya okunamadi: " \o Decode(inflight[k]).message)
    /\ isLoading' = FALSE
    /\ inflight' = RemoveAt(inflight, k)
    /\ effectPending' = (workbook # NULL)
    /\ UNCHANGED <<file, options>>
    /\ UNCHANGED rowVars
    /\ UNCHANGED convVars

\* the k-th suspended loadFile resumes with a workbook without sheets
\* (lines 74-78, 85)
LoadFindsNoSheets(k) ==
    /\ ~effectPending
    /\ k \in 1..Len(inflight)
    /\ Decode(inflight[k]).t = "workbook"
    /\ Len(Decode(inflight[k]).SheetNames) = 0
    /\ workbook' = NULL
    /\ error' = ErrorText("Dosyada sayfa bulunamadi.")
    /\ isLoading' = FALSE
    /\ inflight' = RemoveAt(inflight, k)
    /\ effectPending' = (workbook # NULL)
    /\ UNCHANGED <<file, options>>
    /\ UNCHANGED rowVars
    /\ UNCHANGED convVars

\* the k-th suspended loadFile resumes with a workbook (lines 73-79, 85)
LoadSucceeds(k) ==
    /\ ~effectPending
    /\ k \in 1..Len(inflight)
    /\ Decode(inflight[k]).t = "workbook"
    /\ Len(Decode(inflight[k]).SheetNames) # 0
    /\ workbook' = Decode(inflight[k])
    /\ isLoading' = FALSE
    /\ inflight' = RemoveAt(inflight, k)
    /\ effectPending' = TRUE
    /\ UNCHANGED <<file, error, options>>
    /\ UNCHANGED rowVars
    /\ UNCHANGED convVars

\* line 62 without the includes test
DefaultSheetKeepsAnyName(prev, wb) ==
    IF prev # "" THEN prev
    ELSE IF Len(wb.SheetNames) > 0 THEN wb.SheetNames[1] ELSE ""

\* line 62
DefaultSheet(prev, wb) ==
    IF prev # "" /\ Includes(wb.SheetNames, prev) THEN prev
    ELSE IF Len(wb.SheetNames) > 0 THEN wb.SheetNames[1] ELSE ""

\* the [workbook] effect (lines 58-64)
SheetEffect ==
    /\ effectPending
    /\ effectPending' = FALSE
    /\ options' = IF workbook = NULL THEN options
                  ELSE [options EXCEPT !.sheetName = DefaultSheet(options.sheetName, workbook)]
    /\ UNCHANGED <<file, workbook, error, isLoading, inflight>>
    /\ UNCHANGED rowVars
    /\ UNCHANGED convVars

\* the sheet <select> (lines 211-222)
SelectSheet(name) ==
    /\ ~effectPending
    /\ workbook # NULL
    /\ Len(sheetNames) # 0
    /\ Includes(sheetNames, name)
    /\ options' = [options EXCEPT !.sheetName = name]
    /\ UNCHANGED <<file, workbook, error, isLoading, inflight, effectPending>>
    /\ UNCHANGED rowVars
    /\ UNCHANGED convVars

\* the output <select> (lines 229-237)
SetOutputMode(mode) ==
    /\ ~effectPending
    /\ workbook # NULL
    /\ options' = [options EXCEPT !.outputMode = mode]
    /\ UNCHANGED <<file, workbook, error, isLoading, inflight, effectPending>>
    /\ UNCHANGED rowVars
    /\ UNCHANGED convVars

\* the header row <input> (lines 246-253): Number(e.target.value || 1),
\* `typed` being NULL for the blank field and Num(n) for the digits of n
SetHeaderRowNumber(typed) ==
    /\ ~effectPending
    /\ workbook # NULL
    /\ options.outputMode = "objects"
    /\ options' = [options EXCEPT !.headerRowNumber = IF typed = NULL THEN 1 ELSE typed.v]
    /\ UNCHANGED <<file, workbook, error, isLoading, inflight, effectPending>>
    /\ UNCHANGED rowVars
    /\ UNCHANGED convVars

\* the skip-empty-rows checkbox (lines 258-263)
SetSkipEmptyRows(checked) ==
    /\ ~effectPending
    /\ workbook # NULL
    /\ options' = [options EXCEPT !.skipEmptyRows = checked]
    /\ UNCHANGED <<file, workbook, error, isLoading, inflight, effectPending>>
    /\ UNCHANGED rowVars
    /\ UNCHANGED convVars

\* the pretty checkbox (lines 267-272)
SetPretty(checked) ==
    /\ ~effectPending
    /\ workbook # NULL
    /\ options' = [options EXCEPT !.pretty = checked]
    /\ UNCHANGED <<file, workbook, error, isLoading, inflight, effectPending>>
    /\ UNCHANGED rowVars
    /\ UNCHANGED convVars

TypedHeaderRows == {NULL, Num(0), Num(2), Num(99)}

Next ==
    \/ \E next \in Files : onPickFile(next)
    \/ \E k \in 1..MaxInflight : LoadThrows(k)
    \/ \E k \in 1..MaxInflight : LoadFindsNoSheets(k)
    \/ \E k \in 1..MaxInflight : LoadSucceeds(k)
    \/ SheetEffect
    \/ \E name \in {"S1", "S2", "S3"} : SelectSheet(name)
    \/ \E mode \in {"objects", "arrays"} : SetOutputMode(mode)
    \/ \E typed \in TypedHeaderRows : SetHeaderRowNumber(typed)
    \/ \E checked \in BOOLEAN : SetSkipEmptyRows(checked)
    \/ \E checked \in BOOLEAN : SetPretty(checked)

Spec == Init /\ [][Next]_vars

(***************************************************************************)
(* Claims about normalizeHeaders and isRowEmpty (SpecRow)                  *)
(***************************************************************************)
NoDuplicates(s) == \A p, q \in 1..Len(s) : s[p] = s[q] => p = q

\* C1: for every header row, normalizeHeaders returns a list of the same
\* length as its input that contains no duplicate keys.
C1_UniqueHeaders ==
    headers.t = "returned" =>
        /\ Len(headers.value) = Len(values)
        /\ NoDuplicates(headers.value)

\* The key of position p (1-based) before de-duplication, as the specification
\* words it: the trimmed text of the cell, or Column{p} when that is empty.
SpecKey(vals, p) ==
    LET text == Trim(StringOf(vals[p]))
    IN  IF text = <<>> THEN <<"C", "o", "l", "u", "m", "n">> \o NumberToString(p) ELSE text

\* How many of the positions 1..p carry the key of position p.
Occurrence(vals, p) == Cardinality({q \in 1..p : SpecKey(vals, q) = SpecKey(vals, p)})

\* C2: position i maps to the trimmed string form of the cell, or to
\* Column{i+1} when that is empty; the first occurrence of a key is emitted
\* unchanged, the n-th occurrence (n >= 2) as key_n, order preserved, and
\* ["X","X","X"] gives ["X","X_2","X_3"].
C2_KeysAndSuffixes ==
    headers.t = "returned" =>
        /\ Len(headers.value) = Len(values)
        /\ \A p \in 1..Len(values) :
              LET n == Occurrence(values, p)
              IN  headers.value[p] =
                      IF n = 1 THEN SpecKey(values, p)
                      ELSE SpecKey(values, p) \o <<"_">> \o NumberToString(n)
        /\ values = <<Str(<<"X">>), Str(<<"X">>), Str(<<"X">>)>> =>
              headers.value = << <<"X">>, <<"X", "_", "2">>, <<"X", "_", "3">> >>

C2_Witness ==
    /\ values = <<Str(<<"X">>), NULL, Str(<<" ", "X", " ">>)>>
    /\ headers = Returned(<< <<"X">>, <<"C", "o", "l", "u", "m", "n", "2">>, <<"X", "_", "2">> >>)

\* C6: isRowEmpty(row) is true iff every cell is null/absent or a string made
\* of white space only; the empty row is empty, and any number or boolean
\* cell (0 and false included) makes the row non-empty.
C6_EmptyRow ==
    rowEmpty.t = "returned" =>
        /\ rowEmpty.value <=>
              \A p \in 1..Len(values) :
                  \/ values[p] = NULL
                  \/ /\ values[p].t = "str"
                     /\ \A k \in 1..Len(values[p].v) : IsSpace(values[p].v[k])
        /\ values = <<>> => rowEmpty.value
        /\ (\E p \in 1..Len(values) : values[p].t \in {"num", "bool"}) => ~rowEmpty.value

C6_Witness ==
    /\ values = <<NULL, Str(<<>>), Str(<<" ", " ">>)>>
    /\ rowEmpty = Returned(TRUE)

(***************************************************************************)
(* Claims about the conversion (SpecConv)                                  *)
(***************************************************************************)
\* The header index as the specification words it: headerRowNumber - 1 brought
\* into 0 .. max(0, rows - 1).
SpecHeaderIndex(rws, opts) ==
    LET want == opts.headerRowNumber - 1
        last == IF Len(rws) = 0 THEN 0 ELSE Len(rws) - 1
    IN  IF want < 0 THEN 0 ELSE IF want > last THEN last ELSE want

\* The positions (1-based) of the rows the specification selects for export.
SelectedPositions(rws, opts) ==
    {k \in 1..Len(rws) :
        /\ opts.outputMode = "arrays" \/ k > SpecHeaderIndex(rws, opts) + 1
        /\ opts.skipEmptyRows => ~isRowEmpty(rws[k])}

NthOf(K, j) == CHOOSE k \in K : Cardinality({m \in K : m < k}) = j - 1

\* The selected rows, in grid order.
SelectedRows(rws, opts) ==
    LET K == SelectedPositions(rws, opts)
    IN  [j \in 1..Cardinality(K) |-> rws[NthOf(K, j)]]

SpecHeaderRow(rws, opts) ==
    IF Len(rws) = 0 THEN <<>> ELSE rws[SpecHeaderIndex(rws, opts) + 1]

\* C3: in objects mode the mapping exported for a retained data row r holds
\* under headers[i] the value r[i] when present and "" when missing, for every
\* i below len(headers); cells beyond the headers are dropped and no column's
\* value is replaced by another column's.
C3_ObjectValues ==
    (result.t = "returned" /\ convOptions.outputMode = "objects") =>
        LET hdrs == normalizeHeaders(SpecHeaderRow(rows, convOptions))
            sel == SelectedRows(rows, convOptions)
            objs == result.value.json.value
        IN  /\ Len(objs) = Len(sel)
            /\ \A j \in 1..Len(sel) :
                  /\ DOMAIN objs[j] = {hdrs[i] : i \in 1..Len(hdrs)}
                  /\ \A i \in 1..Len(hdrs) :
                        objs[j][hdrs[i]] =
                            IF i <= Len(sel[j]) /\ sel[j][i] # NULL THEN sel[j][i] ELSE Str(<<>>)

\* C4: arrays mode exports all grid rows, objects mode the rows after the
\* header row; with skipEmptyRows only those that are not empty, otherwise all
\* of them, in grid order; rowCount is their number, and in arrays mode the
\* export (value, preview, rowCount) is the same for every headerRowNumber.
C4_RowSelection ==
    result.t = "returned" =>
        LET r == result.value
            sel == SelectedRows(rows, convOptions)
        IN  /\ r.rowCount = Len(sel)
            /\ Len(r.json.value) = Len(sel)
            /\ convOptions.outputMode = "arrays" =>
                  /\ r.json.value = sel
                  /\ \A h \in HeaderRowNumbers :
                        LET alt == ConvertRows(rows, [convOptions EXCEPT !.headerRowNumber = h])
                        IN  /\ alt.json = r.json
                            /\ alt.previewRows = r.previewRows
                            /\ alt.rowCount = r.rowCount
            /\ convOptions.outputMode = "objects" =>
                  \A j \in 1..Len(sel) :
                      r.json.value[j] = RowObject(normalizeHeaders(SpecHeaderRow(rows, convOptions)), sel[j])

C4_Witness ==
    /\ result.t = "returned"
    /\ rows = LongGrid(PreviewLimit + 1, 2)
    /\ convOptions.outputMode = "objects"
    /\ convOptions.skipEmptyRows
    /\ convOptions.headerRowNumber = 3
    /\ result.value.rowCount = 11

\* C5: for every integer headerRowNumber the header index used is
\* clamp(headerRowNumber - 1, 0, max(0, rows - 1)): a valid index of a
\* non-empty grid, 0 for the empty grid, headerRowNumber - 1 when that is in
\* range; beyond the last row the header is the last row and the objects-mode
\* value is empty with rowCount 0.
C5_HeaderIndex ==
    result.t = "returned" =>
        LET r == result.value
            n == Len(rows)
            h == convOptions.headerRowNumber
        IN  /\ r.headerRowIndex = SpecHeaderIndex(rows, convOptions)
            /\ n > 0 => r.headerRowIndex \in 0..(n - 1)
            /\ n = 0 => r.headerRowIndex = 0
            /\ (h - 1) \in 0..(n - 1) => r.headerRowIndex = h - 1
            /\ (h > n /\ convOptions.outputMode = "objects") =>
                  /\ r.json.value = <<>>
                  /\ r.rowCount = 0
                  /\ n > 0 => (r.headerRowIndex = n - 1 /\ r.previewRows = <<rows[n]>>)

C5_Witness ==
    /\ result.t = "returned"
    /\ Len(rows) = 3
    /\ convOptions.headerRowNumber = 99
    /\ convOptions.outputMode = "objects"
    /\ result.value.headerRowIndex = 2
    /\ result.value.rowCount = 0

\* C7: previewRows has at most 25 rows: in objects mode the header row
\* followed by the first 24 retained data rows, in arrays mode the first 25
\* exported rows.
C7_PreviewCap ==
    result.t = "returned" =>
        LET pv == result.value.previewRows
            sel == SelectedRows(rows, convOptions)
        IN  /\ Len(pv) <= 25
            /\ convOptions.outputMode = "objects" =>
                  /\ Len(pv) = 1 + Min(24, Len(sel))
                  /\ pv[1] = SpecHeaderRow(rows, convOptions)
                  /\ \A j \in 1..Min(24, Len(sel)) : pv[j + 1] = sel[j]
            /\ convOptions.outputMode = "arrays" =>
                  /\ Len(pv) = Min(25, Len(sel))
                  /\ \A j \in 1..Min(25, Len(sel)) : pv[j] = sel[j]

C7_Witness ==
    /\ result.t = "returned"
    /\ rows = LongGrid(PreviewLimit + 2, 0)
    /\ convOptions.outputMode = "objects"
    /\ convOptions.headerRowNumber = 1
    /\ result.value.rowCount = 26
    /\ Len(result.value.previewRows) = 25

(***************************************************************************)
(* Claims about the App component (Spec)                                   *)
(***************************************************************************)
\* C8: when a load ends in a decode failure or in a workbook without sheets,
\* the workbook becomes null, an error message is set and there is no
\* projection; the workbook (and with it the projection) stays null until a
\* load succeeds; a load that starts clears the error.
C8_FailedLoad ==
    [][ /\ (\E k \in 1..MaxInflight : LoadThrows(k) \/ LoadFindsNoSheets(k)) =>
              /\ workbook' = NULL
              /\ error' # NULL
              /\ convertResult' = NULL
        /\ (\E next \in Files : onPickFile(next)) => error' = NULL
        /\ (workbook = NULL /\ workbook' # NULL) => \E k \in 1..MaxInflight : LoadSucceeds(k)
        /\ workbook' = NULL => convertResult' = NULL
      ]_vars

C8_Witness ==
    /\ workbook = NULL
    /\ file = FileCorrupt
    /\ error = ErrorText("Dosya okunamadi: Unsupported file")
    /\ options.sheetName = "S1"
    /\ convertResult = NULL
    /\ inflight = <<>>

\* C9: once the sheet-default effect has run for a loaded workbook, the
\* selected sheetName is one of its sheet names (the previous name when the
\* workbook has it, else the first sheet), so a projection exists; and
\* whenever convertResult is non-null the selected sheet is in the workbook.
C9_SheetSelected ==
    /\ [](/\ (workbook # NULL /\ ~effectPending) =>
                /\ Includes(workbook.SheetNames, options.sheetName)
                /\ convertResult # NULL
          /\ convertResult # NULL =>
                /\ workbook # NULL
                /\ Includes(workbook.SheetNames, options.sheetName))
    /\ [][(SheetEffect /\ workbook # NULL) =>
              options'.sheetName =
                  IF Includes(workbook.SheetNames, options.sheetName)
                  THEN options.sheetName ELSE workbook.SheetNames[1]]_vars

C9_Witness ==
    /\ workbook = Decode(FileB)
    /\ ~effectPending
    /\ options.sheetName = "S2"
    /\ convertResult # NULL

\* C10: once no load is in flight the workbook was decoded from the most
\* recently selected file (the one whose name is shown and names the
\* download), and isLoading is true while some load is in flight.
C10_LatestFileWins ==
    /\ (inflight = <<>> /\ workbook # NULL) => workbook.source = file
    /\ inflight # <<>> => isLoading

====
